---- MODULE Spec2Model ----
(***************************************************************************)
(* Model of test-fixtures/sample-repo/src/ml_model.py: the module's load   *)
(* sequence (two imports, then the class statement), the construction of   *)
(* TransformerModel instances and calls of forward.                        *)
(***************************************************************************)
EXTENDS Integers, Sequences, FiniteSets, TLC

\* ------------------------------------------------------------------ bounds
\* the largest magnitude of the small integers passed as arguments
MaxMag == 1

\* ------------------------------------------------------- Python's values
PyInt(n) == [type |-> "int", val |-> n]

PyNone == [type |-> "NoneType"]

\* the marker of a parameter the caller did not pass
Missing == [type |-> "missing"]

\* the value written in the signature of __init__
DefaultDModel == 512

Ints == (-MaxMag .. MaxMag) \cup {DefaultDModel}

\* argument values a caller may pass: nothing in the code restricts them
Values == {PyInt(n) : n \in Ints} \cup {PyNone}

\* two instances: the smallest heap in which one object could affect another
Objects == {"m1", "m2"}

NoObject == [type |-> "absent"]

NoCall == [type |-> "nocall"]

NoException == "none"

VARIABLES
  pc,              \* position in the module body
  torchAvailable,  \* the environment: is torch importable
  numpyAvailable,  \* the environment: is numpy importable
  err,             \* the uncaught exception, if any
  defaults,        \* TransformerModel.__init__.__defaults__
  heap,            \* the instance dictionary of every object
  args,            \* history: the arguments each object was constructed with, and
                   \* whether a default construction followed an explicit one
  snapshot,        \* history: each object's fields when its constructor returned
  lastCall,        \* history: the last forward call and what it returned
  stdout           \* what the program has printed

vars ==
  <<pc, torchAvailable, numpyAvailable, err, defaults, heap, args, snapshot,
    lastCall, stdout>>

Constructed(o) == heap[o] # NoObject

Init ==
  /\ pc = "start"
  /\ torchAvailable \in BOOLEAN
  /\ numpyAvailable \in BOOLEAN
  /\ err = NoException
  /\ defaults = << >>
  /\ heap = [o \in Objects |-> NoObject]
  /\ args = [o \in Objects |-> NoCall]
  /\ snapshot = [o \in Objects |-> NoObject]
  /\ lastCall = NoCall
  /\ stdout = << >>

\* ----------------------------------------------------------- module load
\* line 9: import torch
ImportTorch ==
  /\ pc = "start"
  /\ err = NoException
  /\ IF torchAvailable
       THEN pc' = "torch_imported" /\ err' = err
       ELSE pc' = pc /\ err' = "ModuleNotFoundError"
  /\ UNCHANGED <<torchAvailable, numpyAvailable, defaults, heap, args,
                 snapshot, lastCall, stdout>>

\* line 10: import numpy as np
ImportNumpy ==
  /\ pc = "torch_imported"
  /\ err = NoException
  /\ IF numpyAvailable
       THEN pc' = "numpy_imported" /\ err' = err
       ELSE pc' = pc /\ err' = "ModuleNotFoundError"
  /\ UNCHANGED <<torchAvailable, numpyAvailable, defaults, heap, args,
                 snapshot, lastCall, stdout>>

\* lines 12-27: the class statement; the def of __init__ evaluates its default
DefineClass ==
  /\ pc = "numpy_imported"
  /\ err = NoException
  /\ pc' = "loaded"
  /\ defaults' = <<PyInt(DefaultDModel)>>
  /\ UNCHANGED <<torchAvailable, numpyAvailable, err, heap, args, snapshot,
                 lastCall, stdout>>

\* ---------------------------------------------------------- construction
\* a binding written "d_model or 512": a falsy argument gets the default too
BindDModelFalsy(defs, a) ==
  IF a.d_model = Missing \/ a.d_model = PyInt(0) THEN defs[1] ELSE a.d_model

\* argument binding of __init__(self, vocab_size, d_model=512)
BindDModel(defs, a) ==
  IF a.d_model = Missing THEN defs[1] ELSE a.d_model

\* the two assignments with their right-hand sides exchanged
InitSwapped(h, self, vocab_size, d_model) ==
  [heap |-> [h EXCEPT ![self] = [d_model |-> vocab_size, vocab_size |-> d_model]],
   raised |-> NoException]

\* a constructor that rejects a vocabulary size that is not a positive integer
InitValidating(h, self, vocab_size, d_model) ==
  IF vocab_size.type = "int" /\ vocab_size.val > 0
    THEN [heap |-> [h EXCEPT ![self] = [d_model |-> d_model, vocab_size |-> vocab_size]],
          raised |-> NoException]
    ELSE [heap |-> h, raised |-> "ValueError"]

\* the two values kept on the class, hence seen by every instance
InitShared(h, self, vocab_size, d_model) ==
  [heap |-> [o \in DOMAIN h |->
               IF o = self \/ h[o] # NoObject
                 THEN [d_model |-> d_model, vocab_size |-> vocab_size]
                 ELSE h[o]],
   raised |-> NoException]

\* lines 18-22: the body of __init__ on the fresh instance self
TransformerModel__init__(h, self, vocab_size, d_model) ==
  [heap |-> [h EXCEPT ![self] = [d_model |-> d_model, vocab_size |-> vocab_size]],
   raised |-> NoException]

\* TransformerModel(...) with the arguments a: a new object, then __init__
Construct(o, a) ==
  /\ pc = "loaded"
  /\ err = NoException
  /\ heap[o] = NoObject
  /\ LET r == TransformerModel__init__(heap, o, a.vocab_size, BindDModel(defaults, a))
     IN /\ heap' = r.heap
        /\ err' = r.raised
        /\ snapshot' = [snapshot EXCEPT ![o] = r.heap[o]]
  /\ args' = [args EXCEPT ![o] =
                [vocab_size |-> a.vocab_size, d_model |-> a.d_model,
                 afterExplicit |->
                   /\ a.d_model = Missing
                   /\ \E p \in Objects :
                        args[p] # NoCall /\ args[p].d_model # Missing]]
  /\ UNCHANGED <<pc, torchAvailable, numpyAvailable, defaults, lastCall, stdout>>

\* TransformerModel(V)
ConstructDefault ==
  \E o \in Objects, V \in Values :
    Construct(o, [vocab_size |-> V, d_model |-> Missing])

\* TransformerModel(V, D) or TransformerModel(V, d_model=D)
ConstructExplicit ==
  \E o \in Objects, V \in Values, D \in Values :
    Construct(o, [vocab_size |-> V, d_model |-> D])

\* ---------------------------------------------------------------- forward
\* a forward that hands its input back
forwardEcho(h, self, x) ==
  [heap |-> h, ret |-> x, raised |-> NoException, out |-> << >>]

\* a forward that keeps its input on the instance
forwardStoring(h, self, x) ==
  [heap |-> [h EXCEPT ![self].d_model = x],
   ret |-> PyNone, raised |-> NoException, out |-> << >>]

\* a stub that raises instead of passing
forwardRaising(h, self, x) ==
  [heap |-> h, ret |-> PyNone, raised |-> "NotImplementedError", out |-> << >>]

\* lines 24-27: the body is pass; the call returns None
forward(h, self, x) ==
  [heap |-> h, ret |-> PyNone, raised |-> NoException, out |-> << >>]

\* o.forward(x)
Forward ==
  \E o \in Objects, x \in Values :
    /\ pc = "loaded"
    /\ err = NoException
    /\ Constructed(o)
    /\ LET r == forward(heap, o, x)
       IN /\ heap' = r.heap
          /\ err' = r.raised
          /\ stdout' = stdout \o r.out
          /\ lastCall' = [self |-> o, x |-> x, ret |-> r.ret, raised |-> r.raised]
    /\ UNCHANGED <<pc, torchAvailable, numpyAvailable, defaults, args, snapshot>>

Next ==
  \/ ImportTorch
  \/ ImportNumpy
  \/ DefineClass
  \/ ConstructDefault
  \/ ConstructExplicit
  \/ Forward

Spec == Init /\ [][Next]_vars

\* ------------------------------------------------------------ properties
\* C1: an object constructed with vocab_size = V and no d_model argument
\* stores d_model = 512 and vocab_size = V.
C1_DefaultStored ==
  \A o \in Objects :
    (args[o] # NoCall /\ args[o].d_model = Missing) =>
      /\ Constructed(o)
      /\ heap[o].d_model = PyInt(512)
      /\ heap[o].vocab_size = args[o].vocab_size

C1_Witness ==
  \E o \in Objects :
    /\ args[o] # NoCall
    /\ args[o].d_model = Missing
    /\ args[o].vocab_size = PyInt(1)
    /\ Constructed(o)

\* C2: an object constructed with vocab_size = V and an explicit d_model = D
\* stores d_model = D, whatever D is (512, 0 and negative values included),
\* and vocab_size = V.
C2_ExplicitStored ==
  \A o \in Objects :
    (args[o] # NoCall /\ args[o].d_model # Missing) =>
      /\ Constructed(o)
      /\ heap[o].d_model = args[o].d_model
      /\ heap[o].vocab_size = args[o].vocab_size

C2_Witness ==
  /\ \E o \in Objects :
       /\ args[o] # NoCall
       /\ args[o].d_model = PyInt(0)
       /\ Constructed(o)
  /\ \E o \in Objects :
       /\ args[o] # NoCall
       /\ args[o].d_model \in {PyInt(-1), PyInt(512)}
       /\ Constructed(o)

\* C3: a call of forward, whatever its input and the object's fields, raises
\* nothing, returns None and prints nothing.
C3_ForwardReturnsNone ==
  lastCall # NoCall =>
    /\ lastCall.ret = PyNone
    /\ lastCall.raised = NoException
    /\ err = NoException
    /\ stdout = << >>

C3_Witness ==
  /\ lastCall # NoCall
  /\ lastCall.x # PyNone
  /\ heap[lastCall.self].vocab_size # PyInt(512)

\* C4: after a call of forward the object it was called on still holds the
\* d_model and vocab_size it held when its constructor returned.
C4_ForwardKeepsFields ==
  lastCall # NoCall => heap[lastCall.self] = snapshot[lastCall.self]

C4_Witness ==
  /\ lastCall # NoCall
  /\ lastCall.x.type = "int"
  /\ lastCall.x # heap[lastCall.self].d_model
  /\ lastCall.x # heap[lastCall.self].vocab_size

\* C5: construction validates nothing and cannot fail: once a construction
\* has been attempted, with any pair of values, the object exists, no
\* exception is pending and the values passed are stored as they were given.
C5_ConstructNeverFails ==
  \A o \in Objects :
    args[o] # NoCall =>
      /\ err = NoException
      /\ Constructed(o)
      /\ args[o].vocab_size = heap[o].vocab_size
      /\ (args[o].d_model = Missing \/ args[o].d_model = heap[o].d_model)

C5_Witness ==
  /\ \E o \in Objects :
       /\ Constructed(o)
       /\ heap[o].vocab_size = PyInt(0)
       /\ heap[o].d_model = PyInt(-1)
  /\ \E o \in Objects :
       /\ Constructed(o)
       /\ heap[o].vocab_size = PyNone
       /\ heap[o].d_model = PyNone

\* C6 as stated: no step from loading the module to construction and forward
\* reaches an error state, whether or not torch and numpy are available.
C6_NothingFails == err = NoException

\* C6 amended: loading executes the two imports, so it fails exactly when
\* torch or numpy is not importable, and then before the class exists; with
\* both importable no step, construction and forward included, fails.
C6_OnlyImportsFail ==
  /\ (torchAvailable /\ numpyAvailable) => err = NoException
  /\ err # NoException =>
       /\ err = "ModuleNotFoundError"
       /\ pc \in {"start", "torch_imported"}
       /\ \A o \in Objects : ~Constructed(o)
  /\ pc = "loaded" => (torchAvailable /\ numpyAvailable)

C6_Witness ==
  /\ torchAvailable
  /\ numpyAvailable
  /\ pc = "loaded"
  /\ \A o \in Objects : Constructed(o)
  /\ lastCall # NoCall

\* C7: instances share nothing: every object keeps the fields its own
\* constructor stored, whatever is constructed or called afterwards, and the
\* default stays 512, so a default construction that follows an explicit one
\* still stores 512.
C7_NoSharedState ==
  /\ \A o \in Objects : Constructed(o) => heap[o] = snapshot[o]
  /\ pc = "loaded" => defaults = <<PyInt(512)>>
  /\ \A o \in Objects :
       (args[o] # NoCall /\ args[o].afterExplicit) => heap[o].d_model = PyInt(512)

C7_Witness ==
  \E o \in Objects, p \in Objects :
    /\ o # p
    /\ args[o] # NoCall
    /\ args[o].afterExplicit
    /\ args[p] # NoCall
    /\ args[p].d_model = PyInt(1)
    /\ args[p].vocab_size # args[o].vocab_size
    /\ lastCall # NoCall
    /\ lastCall.self = o

====
